---- MODULE Spec2Model ----
(***************************************************************************)
(* Reverse-forward registry of the SRP server (package reverseproxy):      *)
(* the global-request handler, the per-listener accept loop and            *)
(* supervisor goroutines, and the lookup / readiness facade.               *)
(*                                                                         *)
(* Strings are sequences of one-character strings, so that the bind        *)
(* address parser and the socket naming are computed as the code does.     *)
(* Every critical section of the handler mutex is one map access and is    *)
(* one atomic step; everything between two critical sections is a          *)
(* separate step, so that goroutines interleave where the code lets them.  *)
(***************************************************************************)
EXTENDS Integers, Sequences, FiniteSets, TLC

\* ------------------------------------------------------------------ bounds

\* Number of global requests that reach the shared state (a listener is
\* opened, or a cancel finds its socket in the map).  Requests that are
\* denied, and cancels of an absent socket, are not limited.
MaxReqs == 2

\* ----------------------------------------------------------------- strings

Digits == {"0", "1", "2", "3", "4", "5", "6", "7", "8", "9"}

DigitVal(c) ==
    CASE c = "0" -> 0 [] c = "1" -> 1 [] c = "2" -> 2 [] c = "3" -> 3
      [] c = "4" -> 4 [] c = "5" -> 5 [] c = "6" -> 6 [] c = "7" -> 7
      [] c = "8" -> 8 [] c = "9" -> 9

\* First index of character c in s, 0 when absent (strings.Index).
IndexOf(s, c) ==
    IF \E i \in 1..Len(s) : s[i] = c
    THEN CHOOSE i \in 1..Len(s) : s[i] = c /\ \A j \in 1..(i - 1) : s[j] # c
    ELSE 0

\* strings.TrimPrefix(s, prefix)
TrimPrefix(s, prefix) ==
    IF Len(s) >= Len(prefix) /\ SubSeq(s, 1, Len(prefix)) = prefix
    THEN SubSeq(s, Len(prefix) + 1, Len(s))
    ELSE s

\* strings.Cut(s, sep) for a one-character separator.
Cut(s, sep) ==
    LET i == IndexOf(s, sep) IN
    IF i = 0
    THEN [before |-> s, after |-> <<>>, found |-> FALSE]
    ELSE [before |-> SubSeq(s, 1, i - 1),
          after  |-> SubSeq(s, i + 1, Len(s)),
          found  |-> TRUE]

RECURSIVE DecimalValue(_)
DecimalValue(s) ==
    IF Len(s) = 0 THEN 0
    ELSE 10 * DecimalValue(SubSeq(s, 1, Len(s) - 1)) + DigitVal(s[Len(s)])

\* strconv.Atoi with the error dropped (`port, _ := strconv.Atoi(..)`): an
\* optional sign, then one or more digits; anything else is an error, on
\* which the value is 0.  The inputs are far shorter than the 19 digits at
\* which the value could leave the int range.
Atoi(s) ==
    LET signed == Len(s) > 0 /\ s[1] \in {"+", "-"}
        body   == IF signed THEN SubSeq(s, 2, Len(s)) ELSE s
    IN  IF Len(body) = 0 \/ \E i \in 1..Len(body) : body[i] \notin Digits
        THEN 0
        ELSE IF signed /\ s[1] = "-" THEN 0 - DecimalValue(body)
             ELSE DecimalValue(body)

\* The rendezvous directory handed to New (any fixed directory).
unixDirectory == <<"/", "d">>

\* filepath.Join(dir, name) for a name that has no separator and is
\* neither "." nor "..": Clean leaves such a path as it is.
FilepathJoin(dir, name) == dir \o <<"/">> \o name

\* handler.ConvertBindAddressToHostPort
ConvertBindAddressToHostPort(bindAddress) ==
    LET trimmed == TrimPrefix(bindAddress, <<"/">>)
        c       == Cut(trimmed, "/")
        port    == Atoi(c.after)
    IN  IF ~c.found THEN [host |-> <<>>, port |-> <<>>, ok |-> FALSE]
        ELSE IF port <= 0 THEN [host |-> <<>>, port |-> <<>>, ok |-> FALSE]
        ELSE [host |-> c.before, port |-> c.after, ok |-> TRUE]

\* handler.ConvertHostPortToSocket: "<dir>/<host>_<port>.sock", always ok.
ConvertHostPortToSocket(host, port) ==
    FilepathJoin(unixDirectory, host \o <<"_">> \o port \o <<".", "s", "o", "c", "k">>)

\* handler.ConvertBindAddressToSocket
ConvertBindAddressToSocket(bindAddress) ==
    LET hp == ConvertBindAddressToHostPort(bindAddress) IN
    IF hp.ok THEN [socket |-> ConvertHostPortToSocket(hp.host, hp.port), ok |-> TRUE]
    ELSE [socket |-> <<>>, ok |-> FALSE]

\* Last index of character c in s, 0 when absent.
LastIndexOf(s, c) ==
    IF \E i \in 1..Len(s) : s[i] = c
    THEN CHOOSE i \in 1..Len(s) : s[i] = c /\ \A j \in (i + 1)..Len(s) : s[j] # c
    ELSE 0

Contains(s, c) == IndexOf(s, c) # 0

\* net.JoinHostPort: a host holding a colon or a percent sign is bracketed.
JoinHostPort(host, port) ==
    IF Contains(host, ":") \/ Contains(host, "%")
    THEN <<"[">> \o host \o <<"]", ":">> \o port
    ELSE host \o <<":">> \o port

\* net.SplitHostPort: the port starts after the last colon; a bracketed host
\* must end right before it; a bare host holds no colon; no stray bracket.
SplitHostPort(hostport) ==
    LET n    == Len(hostport)
        i    == LastIndexOf(hostport, ":")
        bad  == [host |-> <<>>, port |-> <<>>, ok |-> FALSE]
        end  == IndexOf(hostport, "]")
        brk  == n > 0 /\ hostport[1] = "["
        host == IF brk THEN SubSeq(hostport, 2, end - 1) ELSE SubSeq(hostport, 1, i - 1)
        \* the part searched for a stray "[" and for a stray "]"
        restOpen  == IF brk THEN SubSeq(hostport, 2, n) ELSE hostport
        restClose == IF brk THEN SubSeq(hostport, end + 1, n) ELSE hostport
    IN  IF i = 0 THEN bad
        ELSE IF brk /\ (end = 0 \/ end + 1 # i) THEN bad
        ELSE IF ~brk /\ Contains(host, ":") THEN bad
        ELSE IF Contains(restOpen, "[") \/ Contains(restClose, "]") THEN bad
        ELSE [host |-> host, port |-> SubSeq(hostport, i + 1, n), ok |-> TRUE]

\* ------------------------------------------------------------------ inputs

Sessions == {"s1", "s2"}

\* protocol.ForwardRequestType / protocol.CancelRequestType, and a request
\* type the handler does not know.
ForwardRequestType == "tcpip-forward"
CancelRequestType == "cancel-tcpip-forward"
OtherRequestType == "keepalive"
RequestTypes == {ForwardRequestType, CancelRequestType, OtherRequestType}

\* Bind addresses a client may send: two endpoints, a name without a
\* separator, and a port that is not positive.
BindAddrs ==
    { <<"/", "a", "/", "1">>,
      <<"/", "b", "/", "2">>,
      <<"a", "b">>,
      <<"/", "a", "/", "0">> }

\* Request payloads: one that gossh.Unmarshal rejects, and the well-formed
\* ones, which carry a bind address.
Payloads ==
    {[wellformed |-> FALSE, BindUnixSocket |-> <<>>]}
      \cup {[wellformed |-> TRUE, BindUnixSocket |-> b] : b \in BindAddrs}

\* ------------------------------------------------------------------- state

VARIABLES
    authed,      \* ctx value ContextKeyReverseProxyAuthed of each session
    done,        \* whether the session's context is done
    forwards,    \* handler.forwards: socket -> listener
    listeners,   \* every net.Listener ever created by net.Listen, by identity
    fs,          \* socket files that exist in the rendezvous directory
    pc,          \* position of the session's request goroutine
    ln,          \* its local variable "ln"
    nreq,        \* requests that reached the shared state so far
    returned,    \* what the step just taken returned to the SSH engine
    lateReg,     \* history: <<s, socket>> inserted by another session after
                 \* the context of s was done
    cancelled,   \* history: listeners a cancel found in the map, with no
                 \* insert of their socket since
    mu,          \* the handler mutex: the task that holds it, or NoTask
    observed,    \* what the call of the facade just made returned
    conns,       \* every connection an accept loop accepted, in that order
    opens,       \* the connections in the order of their OpenChannel calls
    proxies,     \* client: c.config.Proxies, the type of each proxy
    run,         \* client: position of sshConnection.Run
    result,      \* client: what Run returns: "none" yet, "nil", "err"
    spawned,     \* client: proxy goroutines started by the loop of Run
    proxy,       \* client: position of each proxy goroutine
    ctxDone,     \* client: the context passed to Run is cancelled
    errChClosed, \* client: close(errCh) has run
    clientClosed,\* client: client.Close() has run
    sentOnClosed \* client: history, a send on errCh after its close

\* The state of the registry and its goroutines.
serverVars == <<authed, done, forwards, listeners, fs, pc, ln, nreq, returned, lateReg, cancelled>>

\* The state that only the specifications further below move: the mutex,
\* the facade's last answer, the accepted connections, the client.
extVars == <<mu, observed, conns, opens, proxies, run, result, spawned, proxy, ctxDone,
             errChClosed, clientClosed, sentOnClosed>>

\* The state of the client's sshConnection.Run.
clientVars == <<proxies, run, result, spawned, proxy, ctxDone, errChClosed, clientClosed,
                sentOnClosed>>

vars == <<authed, done, forwards, listeners, fs, pc, ln, nreq, returned, lateReg, cancelled,
          mu, observed, conns, opens,
          proxies, run, result, spawned, proxy, ctxDone, errChClosed, clientClosed,
          sentOnClosed>>

Lids == 1..Len(listeners)

\* What HandleSSHRequest returns to the engine in a step, which the engine
\* sends as the reply: the session, the boolean, and the line the handler
\* logged before it returned.  NoReturn after a step in which no handler
\* returns.
NoReturn == <<>>
Returns(s, ok, logged) == <<s, ok, logged>>

\* A listener returned by net.Listen for request payload p of session s.
NewListener(s, socket, bind) ==
    [socket |-> socket, owner |-> s, bind |-> bind,
     open |-> TRUE,        \* the descriptor is open
     closes |-> 0,         \* calls of Close on it
     removals |-> 0,       \* deletions of a map entry that held it
     loop |-> "none",      \* accept loop: none, accepting, failed, done
     sup |-> "none",       \* supervisor: none, waiting, read, done
     supLn |-> 0]          \* the supervisor's local "ln" (0: none)

\* No task holds the mutex; no call of the facade has returned.
NoTask == <<>>
NoObservation == <<>>

Init ==
    /\ proxies = <<>>
    /\ run = "none"
    /\ result = "none"
    /\ spawned = 0
    /\ proxy = <<>>
    /\ ctxDone = FALSE
    /\ errChClosed = FALSE
    /\ clientClosed = FALSE
    /\ sentOnClosed = FALSE
    /\ mu = NoTask
    /\ observed = NoObservation
    /\ conns = <<>>
    /\ opens = <<>>
    /\ authed = [s \in Sessions |-> "unset"]
    /\ done = [s \in Sessions |-> FALSE]
    /\ forwards = [k \in {} |-> 0]
    /\ listeners = <<>>
    /\ fs = {}
    /\ pc = [s \in Sessions |-> "idle"]
    /\ ln = [s \in Sessions |-> 0]
    /\ nreq = 0
    /\ returned = NoReturn
    /\ lateReg = {}
    /\ cancelled = {}

\* The handler is built by New with an authenticator and an authorizer.  A
\* nil one accepts everything, which is one of the answers a set one gives.
authenticator == "set"
authorizer == "set"

\* -------------------------------------------------- listeners and the map

\* Mutant of ListenFails: the path is bound although it exists (as when a
\* stale socket file is removed before listening).
ListenNeverFails(socket) == FALSE

\* net.Listen("unix", socket) binds the path: it fails when the path exists
\* (address already in use).
ListenFails(socket) == socket \in fs

\* Mutant of CloseIn: Close is counted but the descriptor stays open.
CloseInLeavesOpen(ls, l) == [ls EXCEPT ![l].closes = @ + 1]

\* Listener.Close: the first call unlinks the socket file and closes the
\* descriptor; a later call returns an error, which every caller drops.
CloseIn(ls, l) == [ls EXCEPT ![l].open = FALSE, ![l].closes = @ + 1]

UnlinkIn(files, l) == IF listeners[l].open THEN files \ {listeners[l].socket} ELSE files

\* h.forwards[socket] = ln
MapInsert(m, socket, l) ==
    [k \in DOMAIN m \cup {socket} |-> IF k = socket THEN l ELSE m[k]]

\* Mutant of MapDelete: the entry is left in the map.
MapDeleteNothing(m, socket) == m

\* delete(h.forwards, socket)
MapDelete(m, socket) == [k \in DOMAIN m \ {socket} |-> m[k]]

\* Mutant of SocketAlive: the socket file is looked for, not the map entry.
SocketAliveByFile(socket) == socket \in fs

\* handler.SocketAlive
SocketAlive(socket) == socket \in DOMAIN forwards

\* handler.ProxyReadiness
ProxyReadiness(target) ==
    LET hp == SplitHostPort(target) IN
    IF ~hp.ok THEN FALSE
    ELSE SocketAlive(ConvertHostPortToSocket(hp.host, hp.port))

\* ------------------------------------------------------- authentication

\* PasswordHandler / PublicKeyHandler: without an authenticator the attempt
\* is accepted, otherwise the authenticator decides; the outcome is recorded
\* on the session context.  The engine asks until an attempt succeeds.
Authenticate(s, answer) ==
    /\ ~done[s]
    /\ authed[s] # "true"
    /\ pc[s] = "idle"
    /\ LET ret == IF authenticator = "nil" THEN TRUE ELSE answer IN
       authed' = [authed EXCEPT ![s] = IF ret THEN "true" ELSE "false"]
    /\ authed'[s] # authed[s]
    /\ returned' = NoReturn
    /\ UNCHANGED <<done, forwards, listeners, fs, pc, ln, nreq, lateReg, cancelled>>

\* Mutant of Authed: only a recorded failure is refused, a session that
\* never authenticated passes.
AuthedUnlessFailed(s) == authed[s] # "false"

\* authed, _ := ctx.Value(ContextKeyReverseProxyAuthed).(bool)
Authed(s) == authed[s] = "true"

\* The session's context is done (the SSH connection ended).
Terminate(s) ==
    /\ ~done[s]
    /\ done' = [done EXCEPT ![s] = TRUE]
    /\ returned' = NoReturn
    /\ UNCHANGED <<authed, forwards, listeners, fs, pc, ln, nreq, lateReg, cancelled>>

\* ------------------------------------------------- the global-request handler

\* What the handler computes from each payload before it touches shared
\* state: the outcome of gossh.Unmarshal, of ConvertBindAddressToHostPort and
\* of ConvertBindAddressToSocket.
Decoded ==
    [p \in Payloads |->
        [wellformed |-> p.wellformed,
         hostport   |-> ConvertBindAddressToHostPort(p.BindUnixSocket),
         socket     |-> ConvertBindAddressToSocket(p.BindUnixSocket)]]

\* The socket a well-formed payload names (meaningful when the bind parses).
SocketOf(payload) == Decoded[payload].socket.socket

\* HandleSSHRequest up to its first access to shared state, as the branch it
\* takes, named after what the handler logs there.  Every branch of
\* DenyBranches returns false.  allow is the authorizer's answer, oserr an
\* operating-system failure of net.Listen other than an existing path.
\* Mutant of CancelBranch: a cancel of a socket that is not in the map is
\* refused.
CancelBranchStrict(found) == IF found THEN "cancel_hit" ELSE "cancel_invalid"

\* Cancel: ln, ok := h.forwards[socket]; with or without a listener found
\* the request is accepted.
CancelBranch(found) == IF found THEN "cancel_hit" ELSE "cancel_miss"

\* Mutant of ForwardBranch: the authorizer's answer is not looked at.
ForwardBranchNoAuthorizer(wellformed, valid, allowed, listenFails) ==
    IF ~wellformed THEN "decode_error"
    ELSE IF ~valid THEN "invalid_target"
    ELSE IF listenFails THEN "listen_error"
    ELSE "listen"

\* Forward: the checks in the order of the code, each returning false, up
\* to net.Listen.
ForwardBranch(wellformed, valid, allowed, listenFails) ==
    IF ~wellformed THEN "decode_error"
    ELSE IF ~valid THEN "invalid_target"
    ELSE IF ~allowed THEN "unauthorized"
    ELSE IF listenFails THEN "listen_error"
    ELSE "listen"

DenyBranches ==
    {"unauthed", "decode_error", "invalid_target", "unauthorized",
     "listen_error", "cancel_decode_error", "cancel_invalid", "unknown_request"}

Branch(s, type, payload, allow, oserr) ==
    IF ~Authed(s) THEN "unauthed"
    ELSE IF type = ForwardRequestType THEN
        ForwardBranch(Decoded[payload].wellformed,
                      Decoded[payload].hostport.ok,
                      authorizer = "nil" \/ allow,
                      ListenFails(SocketOf(payload)) \/ oserr)
    ELSE IF type = CancelRequestType THEN
        IF ~Decoded[payload].wellformed THEN "cancel_decode_error"
        ELSE IF ~Decoded[payload].socket.ok THEN "cancel_invalid"
        ELSE CancelBranch(SocketOf(payload) \in DOMAIN forwards)
    ELSE "unknown_request"

\* The requests that reach the shared state are counted in nreq, which
\* each specification bounds.
\* A global request arrives on session s and the handler runs up to and
\* including its first access to shared state (net.Listen for a forward, the
\* locked map read for a cancel); where it has nothing left to do it
\* returns.  The engine handles the requests of one connection one after
\* the other.
HandleSSHRequest(s, type, payload, allow, oserr) ==
    LET b == Branch(s, type, payload, allow, oserr) IN
    /\ pc[s] = "idle"
    /\ ~done[s]
    /\ nreq' = IF b \in {"listen", "cancel_hit"} THEN nreq + 1 ELSE nreq
    /\ CASE b \in DenyBranches ->
              /\ returned' = Returns(s, FALSE, b)
              /\ UNCHANGED <<listeners, fs, ln, pc>>
         [] b = "listen" ->
              /\ listeners' = Append(listeners,
                     NewListener(s, SocketOf(payload), payload.BindUnixSocket))
              /\ fs' = fs \cup {SocketOf(payload)}
              /\ ln' = [ln EXCEPT ![s] = Len(listeners) + 1]
              /\ pc' = [pc EXCEPT ![s] = "listened"]
              /\ returned' = NoReturn
         [] b = "cancel_hit" ->
              /\ ln' = [ln EXCEPT ![s] = forwards[SocketOf(payload)]]
              /\ pc' = [pc EXCEPT ![s] = "cancel_read"]
              /\ returned' = NoReturn
              /\ UNCHANGED <<listeners, fs>>
         [] b = "cancel_miss" ->
              /\ returned' = Returns(s, TRUE, b)
              /\ UNCHANGED <<listeners, fs, ln, pc>>
    /\ cancelled' = IF b = "cancel_hit"
                    THEN cancelled \cup {forwards[SocketOf(payload)]}
                    ELSE cancelled
    /\ UNCHANGED <<authed, done, forwards, lateReg>>

\* h.Lock(); h.forwards[socket] = ln; h.Unlock()
ForwardInsert(s) ==
    /\ pc[s] = "listened"
    /\ forwards' = MapInsert(forwards, listeners[ln[s]].socket, ln[s])
    /\ pc' = [pc EXCEPT ![s] = "inserted"]
    /\ returned' = NoReturn
    /\ lateReg' = lateReg \cup
         {<<t, listeners[ln[s]].socket>> : t \in {u \in Sessions \ {s} : done[u]}}
    /\ cancelled' = {l \in cancelled : listeners[l].socket # listeners[ln[s]].socket}
    /\ UNCHANGED <<authed, done, listeners, fs, ln, nreq>>

\* The two go statements and "return true, nil".
ForwardSpawn(s) ==
    /\ pc[s] = "inserted"
    /\ listeners' = [listeners EXCEPT ![ln[s]].sup = "waiting",
                                      ![ln[s]].loop = "accepting"]
    /\ pc' = [pc EXCEPT ![s] = "idle"]
    /\ ln' = [ln EXCEPT ![s] = 0]
    /\ returned' = Returns(s, TRUE, "ready")
    /\ UNCHANGED <<authed, done, forwards, fs, nreq, lateReg, cancelled>>

\* Cancel, after the locked read found a listener: ln.Close(); return true.
CancelClose(s) ==
    /\ pc[s] = "cancel_read"
    /\ listeners' = CloseIn(listeners, ln[s])
    /\ fs' = UnlinkIn(fs, ln[s])
    /\ pc' = [pc EXCEPT ![s] = "idle"]
    /\ ln' = [ln EXCEPT ![s] = 0]
    /\ returned' = Returns(s, TRUE, "cancelled")
    /\ UNCHANGED <<authed, done, forwards, nreq, lateReg, cancelled>>

\* ----------------------------------------------- goroutines of a listener

\* Supervisor: <-ctx.Done(); h.Lock(); ln, ok := h.forwards[socket]; h.Unlock()
SupervisorRead(l) ==
    /\ listeners[l].sup = "waiting"
    /\ done[listeners[l].owner]
    /\ listeners' =
         IF listeners[l].socket \in DOMAIN forwards
         THEN [listeners EXCEPT ![l].sup = "read",
                                ![l].supLn = forwards[listeners[l].socket]]
         ELSE [listeners EXCEPT ![l].sup = "done"]
    /\ returned' = NoReturn
    /\ UNCHANGED <<authed, done, forwards, fs, pc, ln, nreq, lateReg, cancelled>>

\* Supervisor: if ok { ln.Close() }
SupervisorClose(l) ==
    /\ listeners[l].sup = "read"
    /\ listeners' = [CloseIn(listeners, listeners[l].supLn) EXCEPT
                        ![l].sup = "done", ![l].supLn = 0]
    /\ fs' = UnlinkIn(fs, listeners[l].supLn)
    /\ returned' = NoReturn
    /\ UNCHANGED <<authed, done, forwards, pc, ln, nreq, lateReg, cancelled>>

\* Accept loop: ln.Accept() returns the error of a closed listener; break.
AcceptClosed(l) ==
    /\ listeners[l].loop = "accepting"
    /\ ~listeners[l].open
    /\ listeners' = [listeners EXCEPT ![l].loop = "failed"]
    /\ returned' = NoReturn
    /\ UNCHANGED <<authed, done, forwards, fs, pc, ln, nreq, lateReg, cancelled>>

\* Accept loop: ln.Accept() on an open listener returns an error of the
\* operating system (no descriptor left, for one); break.
AcceptError(l) ==
    /\ listeners[l].loop = "accepting"
    /\ listeners[l].open
    /\ listeners' = [listeners EXCEPT ![l].loop = "failed"]
    /\ returned' = NoReturn
    /\ UNCHANGED <<authed, done, forwards, fs, pc, ln, nreq, lateReg, cancelled>>

\* The listeners' records after delete(h.forwards, socket) by the loop of l.
AfterExit(l) ==
    LET socket == listeners[l].socket
        held   == IF socket \in DOMAIN forwards THEN forwards[socket] ELSE 0
    IN  [i \in Lids |->
            [listeners[i] EXCEPT
               !.loop = IF i = l THEN "done" ELSE @,
               !.removals = IF i = held THEN @ + 1 ELSE @]]

\* Accept loop, after the break: h.Lock(); delete(h.forwards, socket); h.Unlock()
LoopExit(l) ==
    /\ listeners[l].loop = "failed"
    /\ forwards' = MapDelete(forwards, listeners[l].socket)
    /\ listeners' = AfterExit(l)
    /\ returned' = NoReturn
    /\ UNCHANGED <<authed, done, fs, pc, ln, nreq, lateReg, cancelled>>

\* --------------------------------------------------------- specification

\* The authorizer and net.Listen are consulted for a forward request only.
AuthorizerAnswers(type) == IF type = ForwardRequestType THEN BOOLEAN ELSE {TRUE}
ListenErrors(type) == IF type = ForwardRequestType THEN BOOLEAN ELSE {FALSE}

\* In this specification every critical section is one step, the facade is
\* not called and no connection arrives.
Next ==
    \/ \E s \in Sessions, answer \in BOOLEAN : Authenticate(s, answer) /\ UNCHANGED extVars
    \/ \E s \in Sessions : Terminate(s) /\ UNCHANGED extVars
    \/ \E s \in Sessions, type \in RequestTypes, payload \in Payloads :
         \E allow \in AuthorizerAnswers(type), oserr \in ListenErrors(type) :
            HandleSSHRequest(s, type, payload, allow, oserr)
              /\ nreq' <= MaxReqs /\ UNCHANGED extVars
    \/ \E s \in Sessions : ForwardInsert(s) /\ UNCHANGED extVars
    \/ \E s \in Sessions : ForwardSpawn(s) /\ UNCHANGED extVars
    \/ \E s \in Sessions : CancelClose(s) /\ UNCHANGED extVars
    \/ \E l \in Lids : SupervisorRead(l) /\ UNCHANGED extVars
    \/ \E l \in Lids : SupervisorClose(l) /\ UNCHANGED extVars
    \/ \E l \in Lids : AcceptClosed(l) /\ UNCHANGED extVars
    \/ \E l \in Lids : AcceptError(l) /\ UNCHANGED extVars
    \/ \E l \in Lids : LoopExit(l) /\ UNCHANGED extVars

Spec == Init /\ [][Next]_vars

\* Every goroutine that can take a step eventually takes it: the handler
\* between two critical sections, the supervisor once its context is done,
\* the accept loop once its listener is closed or its accept failed.  The
\* arrival of requests, authentication, the end of a connection and an
\* accept error of the operating system are not forced.
Fairness ==
    /\ \A s \in Sessions :
          /\ WF_vars(ForwardInsert(s) /\ UNCHANGED extVars)
          /\ WF_vars(ForwardSpawn(s) /\ UNCHANGED extVars)
          /\ WF_vars(CancelClose(s) /\ UNCHANGED extVars)
    /\ \A l \in 1..MaxReqs :
          /\ WF_vars(l \in Lids /\ SupervisorRead(l) /\ UNCHANGED extVars)
          /\ WF_vars(l \in Lids /\ SupervisorClose(l) /\ UNCHANGED extVars)
          /\ WF_vars(l \in Lids /\ AcceptClosed(l) /\ UNCHANGED extVars)
          /\ WF_vars(l \in Lids /\ LoopExit(l) /\ UNCHANGED extVars)

FairSpec == Init /\ [][Next]_vars /\ Fairness

\* ------------------------------------------------------------ the claims

\* The sockets the well-formed, valid payloads name.
Sockets == {Decoded[p].socket.socket : p \in {q \in Payloads : Decoded[q].socket.ok}}

\* Listener l has been put in the map by the request that opened it.
Inserted(l) == ~(\E s \in Sessions : pc[s] = "listened" /\ ln[s] = l)

\* Some goroutine holds listener l in a local variable and is about to call
\* Close on it.
CloserPending(l) ==
    \/ \E s \in Sessions : pc[s] = "cancel_read" /\ ln[s] = l
    \/ \E i \in Lids : listeners[i].sup = "read" /\ listeners[i].supLn = l

\* C1 (auth gate): on a session whose authentication flag is unset or false
\* the handler never gets past the flag: whatever request a step handles
\* there (any type, any payload) is returned as a denial, logged as not
\* allowed, and that step leaves the map, the listeners (their descriptors,
\* loops and supervisors) and the socket files as they were; no step opens a
\* listener for such a session or moves its handler past the check.
C1_AuthGate ==
    [][\A s \in Sessions :
          authed[s] # "true" =>
            /\ pc'[s] = "idle" /\ ln'[s] = 0
            /\ \A l \in 1..Len(listeners') : l \notin Lids => listeners'[l].owner # s
            /\ (returned' # NoReturn /\ returned'[1] = s)
                 => /\ returned' = Returns(s, FALSE, "unauthed")
                    /\ UNCHANGED <<forwards, listeners, fs>>]_vars

\* C1 witness: a request of a session that is not authenticated has just
\* been denied while another session holds a registration.
C1_Witness ==
    \E s \in Sessions :
        /\ authed[s] # "true"
        /\ returned = Returns(s, FALSE, "unauthed")
        /\ DOMAIN forwards # {}

\* C2 (close exactly once), the claim as stated: Close is never called twice
\* on a listener, and once the accept loop of a listener has exited and no
\* goroutine is left that holds it, Close has been called on it exactly once
\* and its map entry has been removed exactly once.
C2_CloseExactlyOnce ==
    \A l \in Lids :
        /\ listeners[l].closes <= 1
        /\ (listeners[l].loop = "done" /\ ~CloserPending(l))
              => (listeners[l].closes = 1 /\ listeners[l].removals = 1)

\* C3 (guarded removal), the claim as stated: the exit of an accept loop
\* leaves every map entry that holds another listener than its own.
C3_GuardedRemoval ==
    [][\A l \in Lids :
          LoopExit(l) =>
            \A k \in DOMAIN forwards :
                forwards[k] # l => (k \in DOMAIN forwards' /\ forwards'[k] = forwards[k])]_vars

\* A dial of the unix socket (SocketsDialer) connects when a listening
\* descriptor is bound to the path.
DialSucceeds(socket) ==
    \E l \in Lids : listeners[l].socket = socket /\ listeners[l].open

OwnerDoneAt(l) ==
    IF l \in Lids THEN listeners[l].loop # "none" /\ done[listeners[l].owner] ELSE FALSE

ClosedAndExited(l) ==
    IF l \in Lids THEN ~listeners[l].open /\ listeners[l].loop = "done" ELSE FALSE

\* C4 (owner-termination cleanup), the claim as stated: once the context of
\* a session is done, every listener opened by an accepted tcpip-forward of
\* that session is eventually closed with its accept loop exited, under fair
\* scheduling.
C4_OwnerCleanup ==
    \A l \in 1..MaxReqs :
        [](OwnerDoneAt(l) => <>ClosedAndExited(l))

\* The payloads that name an endpoint, and the target "host:port" under
\* which the proxy front-end asks for the endpoint of such a payload.
ValidPayloads == {p \in Payloads : Decoded[p].socket.ok}
TargetOf(p) == JoinHostPort(Decoded[p].hostport.host, Decoded[p].hostport.port)

\* Session s has registered the endpoint of payload p (put it in the map).
RegisteredBy(s, p) ==
    \E l \in Lids :
        listeners[l].owner = s /\ listeners[l].socket = SocketOf(p) /\ Inserted(l)

\* C5 (owner-death cleanup of membership): once the context of session s is
\* done, every endpoint s registered, unless another session registers it
\* afterwards, eventually is not ready and stays so, under fair scheduling.
C5_OwnerDeathMembership ==
    \A s \in Sessions, p \in ValidPayloads :
        []((done[s] /\ RegisteredBy(s, p))
           => <>(<<s, SocketOf(p)>> \in lateReg \/ []~ProxyReadiness(TargetOf(p))))

\* C5 witness: after a single registration and no cancel, the context of
\* the owner is done, its supervisor has closed the listener it found, the
\* accept loop has exited, and the endpoint is not ready.
C5_Witness ==
    \E p \in ValidPayloads, l \in Lids :
        /\ listeners[l].socket = SocketOf(p)
        /\ done[listeners[l].owner]
        /\ listeners[l].sup = "done" /\ listeners[l].closes = 1
        /\ listeners[l].loop = "done"
        /\ <<listeners[l].owner, SocketOf(p)>> \notin lateReg
        /\ nreq = 1
        /\ ~ProxyReadiness(TargetOf(p))

\* The socket is in the map and the listener stored under it is open.
RegisteredOpen(socket) ==
    socket \in DOMAIN forwards /\ listeners[forwards[socket]].open

\* C6 (registry uniqueness): at no time are two open listeners bound to the
\* same socket; and a tcpip-forward of an authenticated session for an
\* endpoint that is registered with an open listener is denied (by the
\* authorizer, or else by net.Listen), and leaves the map, every listener
\* with its loop and supervisor, and the socket files unchanged.
C6_RegistryUniqueness ==
    /\ [](\A i \in Lids, j \in Lids :
            (i # j /\ listeners[i].open /\ listeners[j].open)
              => listeners[i].socket # listeners[j].socket)
    /\ [][\A s \in Sessions, p \in ValidPayloads, allow \in BOOLEAN, oserr \in BOOLEAN :
            ( /\ authed[s] = "true"
              /\ RegisteredOpen(SocketOf(p))
              /\ HandleSSHRequest(s, ForwardRequestType, p, allow, oserr) )
            => /\ returned' \in {Returns(s, FALSE, "listen_error"),
                                 Returns(s, FALSE, "unauthorized")}
               /\ UNCHANGED <<forwards, listeners, fs, pc, ln>>]_vars

\* C6 witness: every endpoint is registered with an open, accepting
\* listener, and a tcpip-forward that named one of them has just been denied
\* by net.Listen.
C6_Witness ==
    \E s \in Sessions :
        /\ returned = Returns(s, FALSE, "listen_error")
        /\ \A k \in Sockets :
              RegisteredOpen(k) /\ listeners[forwards[k]].loop = "accepting"

\* The endpoint of listener l is gone: it is not ready, the listener is
\* closed, its accept loop has exited, and a dial of its socket fails.
Gone(l) ==
    IF l \in Lids
    THEN LET hp == ConvertBindAddressToHostPort(listeners[l].bind) IN
         /\ ~ProxyReadiness(JoinHostPort(hp.host, hp.port))
         /\ ~listeners[l].open
         /\ listeners[l].loop = "done"
         /\ ~DialSucceeds(listeners[l].socket)
    ELSE FALSE

\* C7 (cancel effect): after the cancel of an authenticated session found
\* listener l under its socket (the locked read of the cancel), and unless
\* the socket is inserted again after that read, eventually the endpoint is
\* not ready, l is closed, its accept loop has exited and a dial fails,
\* under fair scheduling.
C7_CancelEffect ==
    \A l \in 1..MaxReqs :
        [](l \in cancelled => <>(l \notin cancelled \/ Gone(l)))

\* C7 witness: no context is done, a cancel found listener l and was
\* accepted, the socket was not inserted again, and the endpoint is gone.
C7_Witness ==
    \E l \in cancelled :
        /\ \A s \in Sessions : ~done[s] /\ pc[s] = "idle"
        /\ listeners[l].closes = 1
        /\ Gone(l)

\* C8 (cancel idempotence): on an authenticated session a cancel whose bind
\* address parses is always accepted: if the socket is absent it returns
\* true at once and changes nothing; if it is present the handler goes on to
\* Close and then returns true; and a Close by a cancel on a listener that
\* is already closed (the second cancel in a row) changes neither the map,
\* nor the socket files, nor the descriptor or the loop of any listener.
C8_CancelIdempotence ==
    [][\A s \in Sessions :
          /\ \A p \in ValidPayloads :
                (authed[s] = "true" /\ HandleSSHRequest(s, CancelRequestType, p, TRUE, FALSE))
                => /\ UNCHANGED <<forwards, listeners, fs>>
                   /\ IF SocketOf(p) \in DOMAIN forwards
                      THEN pc'[s] = "cancel_read" /\ ln'[s] = forwards[SocketOf(p)]
                      ELSE returned' = Returns(s, TRUE, "cancel_miss")
                             /\ UNCHANGED <<pc, ln>>
          /\ CancelClose(s)
                => /\ returned' = Returns(s, TRUE, "cancelled")
                   /\ ~listeners[ln[s]].open
                        => /\ UNCHANGED <<forwards, fs>>
                           /\ \A l \in Lids :
                                 /\ listeners'[l].open = listeners[l].open
                                 /\ listeners'[l].loop = listeners[l].loop]_vars

\* C8 witness: one listener was registered and cancelled, its loop has
\* removed it, and a further cancel has just been accepted with the socket
\* absent.
C8_Witness ==
    \E s \in Sessions, l \in cancelled :
        /\ Len(listeners) = 1
        /\ listeners[l].loop = "done"
        /\ forwards = [k \in {} |-> 0]
        /\ returned = Returns(s, TRUE, "cancel_miss")

C10_AcceptedVisible ==
    [][/\ \A s \in Sessions :
            ForwardSpawn(s) =>
                LET l == ln[s]
                    k == listeners[l].socket
                IN  \/ /\ k \in DOMAIN forwards'
                       /\ forwards'[k] = l
                       /\ listeners'[l].open
                    \/ l \in cancelled
                    \/ done[s]
       /\ \A k \in DOMAIN forwards :
            (k \notin DOMAIN forwards' \/ forwards'[k] # forwards[k])
            => \/ forwards[k] \in cancelled
               \/ done[listeners[forwards[k]].owner]
               \/ listeners[forwards[k]].loop = "failed"]_vars

\* The branches on which a tcpip-forward of an authenticated session is
\* denied.
ForwardDenials == {"decode_error", "invalid_target", "unauthorized", "listen_error"}

\* A reason to deny the forward request with payload p: it does not decode,
\* its bind address is invalid, the authorizer says no, or net.Listen fails.
Refused(p, allow, oserr) ==
    \/ ~Decoded[p].wellformed
    \/ ~Decoded[p].hostport.ok
    \/ ~allow
    \/ oserr
    \/ SocketOf(p) \in fs

\* C11 (denial leaves no partial state): a tcpip-forward of an authenticated
\* session that has a reason to be denied (decode error, invalid bind
\* address, authorizer deny, listen failure) returns false in one step that
\* leaves the map, the listeners with their loops and supervisors, and the
\* socket files unchanged; the session is not terminated and its handler is
\* back where it takes the next request: every step that returns such a
\* denial changes none of them, and the handling of a forward request that
\* has a reason to be denied is never any other step.
C11_DenialNoPartialState ==
    [][\A s \in Sessions :
          IF \E b \in ForwardDenials : returned' = Returns(s, FALSE, b)
          THEN /\ UNCHANGED <<forwards, listeners, fs, done, authed>>
               /\ pc[s] = "idle" /\ pc'[s] = "idle" /\ ln'[s] = 0 /\ ~done'[s]
          ELSE \* a step that is not such a denial is not the handling of a
               \* forward request that had a reason to be denied
               (authed[s] = "true" /\ (pc'[s] # pc[s] \/ returned' # NoReturn)) =>
               \A p \in Payloads, allow \in BOOLEAN, oserr \in BOOLEAN :
                   Refused(p, allow, oserr)
                   => ~HandleSSHRequest(s, ForwardRequestType, p, allow, oserr)]_vars

\* C11 witness: an authenticated session was denied by the authorizer, and
\* there is no map entry, no listener and no socket file.
C11_Witness ==
    \E s \in Sessions :
        /\ returned = Returns(s, FALSE, "unauthorized")
        /\ authed[s] = "true"
        /\ DOMAIN forwards = {} /\ listeners = <<>> /\ fs = {}

\* ------------------------------------------------ the facade, called

\* In FacadeSpec the sessions send forward and cancel requests with a valid
\* bind address, which the authorizer allows.
FacadeRequestTypes == {ForwardRequestType, CancelRequestType}

\* Targets handed to the facade: the two endpoints, a target without a
\* colon, and one that no bind address can register (its port is 0).
Targets ==
    { <<"a", ":", "1">>,
      <<"b", ":", "2">>,
      <<"a", "b">>,
      <<"a", ":", "0">> }

\* handler.ProxyProvide: the proxy of the socket the target names; an error
\* when the target cannot be split.
ProxyProvide(target) ==
    LET hp == SplitHostPort(target) IN
    IF ~hp.ok THEN [ok |-> FALSE, socket |-> <<>>]
    ELSE [ok |-> TRUE, socket |-> ConvertHostPortToSocket(hp.host, hp.port)]

Observation(call, target, value) == <<call, target, value>>

\* A call of ProxyReadiness returns (the locked read of SocketAlive is its
\* one access to the map).
ProxyReadinessCall(target) ==
    /\ observed' = Observation("ready", target, ProxyReadiness(target))
    /\ returned' = NoReturn
    /\ UNCHANGED <<authed, done, forwards, listeners, fs, pc, ln, nreq, lateReg, cancelled>>
    /\ UNCHANGED <<conns, opens, clientVars>>

\* A call of ProxyProvide returns.
ProxyProvideCall(target) ==
    /\ observed' = Observation("provide", target, ProxyProvide(target))
    /\ returned' = NoReturn
    /\ UNCHANGED <<authed, done, forwards, listeners, fs, pc, ln, nreq, lateReg, cancelled>>
    /\ UNCHANGED <<mu, conns, opens, clientVars>>

\* A step of the registry, after which the last answer of the facade is
\* forgotten.
FacadeQuiet == observed' = NoObservation /\ UNCHANGED <<mu, conns, opens, clientVars>>

FacadeNext ==
    \/ \E s \in Sessions, answer \in BOOLEAN : Authenticate(s, answer) /\ FacadeQuiet
    \/ \E s \in Sessions : Terminate(s) /\ FacadeQuiet
    \/ \E s \in Sessions, type \in FacadeRequestTypes, payload \in ValidPayloads :
            HandleSSHRequest(s, type, payload, TRUE, FALSE)
              /\ nreq' <= MaxReqs /\ FacadeQuiet
    \/ \E s \in Sessions : ForwardInsert(s) /\ FacadeQuiet
    \/ \E s \in Sessions : ForwardSpawn(s) /\ FacadeQuiet
    \/ \E s \in Sessions : CancelClose(s) /\ FacadeQuiet
    \/ \E l \in Lids : SupervisorRead(l) /\ FacadeQuiet
    \/ \E l \in Lids : SupervisorClose(l) /\ FacadeQuiet
    \/ \E l \in Lids : AcceptClosed(l) /\ FacadeQuiet
    \/ \E l \in Lids : AcceptError(l) /\ FacadeQuiet
    \/ \E l \in Lids : LoopExit(l) /\ FacadeQuiet
    \/ \E target \in Targets : ProxyReadinessCall(target) /\ UNCHANGED mu
    \/ \E target \in Targets : ProxyProvideCall(target)

FacadeSpec == Init /\ [][FacadeNext]_vars

\* The map holds listener l under its socket.
Held(l) ==
    /\ listeners[l].socket \in DOMAIN forwards
    /\ forwards[listeners[l].socket] = l

\* The target "host:port" of the bind address listener l was opened for.
TargetOfListener(l) ==
    LET hp == ConvertBindAddressToHostPort(listeners[l].bind) IN
    JoinHostPort(hp.host, hp.port)

\* C12 (readiness reflects registration): a call of ProxyReadiness returns
\* true exactly when the map, at that step, holds a listener that was
\* registered for that target (so false for a target that cannot be split,
\* and false once the entry was removed); a call of ProxyProvide succeeds
\* exactly when the target can be split, registered or not, and names the
\* socket of that target; neither call changes the map, a listener or a
\* socket file.
C12_ReadinessReflectsRegistration ==
    [][\A target \in Targets :
          /\ ProxyReadinessCall(target)
               => /\ observed' = Observation("ready", target,
                                     \E l \in Lids : Held(l) /\ TargetOfListener(l) = target)
                  /\ UNCHANGED <<forwards, listeners, fs>>
          /\ ProxyProvideCall(target)
               => /\ observed'[3].ok = (\E i \in 1..Len(target) : target[i] = ":")
                  /\ \A p \in ValidPayloads :
                        TargetOf(p) = target => observed'[3].socket = SocketOf(p)
                  /\ UNCHANGED <<forwards, listeners, fs>>]_vars

\* C12 witness: the entry of the listener registered for a target was
\* removed, no listener is held for it, and ProxyReadiness has just
\* answered false for that target.
C12_Witness ==
    \E l \in Lids :
        /\ listeners[l].removals = 1
        /\ ~Held(l)
        /\ observed = Observation("ready", TargetOfListener(l), FALSE)

\* ------------------------------------------- the connections of a listener

\* Registrations that reach the shared state, and connections accepted, in
\* ConnSpec.
ConnReqs == 1
MaxConns == 2

Cids == 1..Len(conns)

\* A connection returned by ln.Accept() of listener l, handed to
\* "go handleConnection(c, conn, target)".
NewConn(l) ==
    [ln |-> l,
     c |-> "open",         \* the accepted connection: open, closed
     ch |-> "none",        \* its channel: none, open, closed, failed
     up |-> "none",        \* io.Copy(ch, c): none, running, done
     down |-> "none"]      \* io.Copy(c, ch): none, running, done

\* Accept loop: c, err := ln.Accept() returns a connection;
\* go handleConnection(c, ...).
Accept(l) ==
    /\ listeners[l].loop = "accepting"
    /\ listeners[l].open
    /\ conns' = Append(conns, NewConn(l))
    /\ returned' = NoReturn
    /\ UNCHANGED <<authed, done, forwards, listeners, fs, pc, ln, nreq, lateReg, cancelled>>
    /\ UNCHANGED <<mu, observed, opens, clientVars>>

\* Mutant of CloseConn: every connection of the same listener is closed.
CloseConnsOfListener(cs, c) ==
    [d \in DOMAIN cs |-> IF cs[d].ln = cs[c].ln THEN [cs[d] EXCEPT !.c = "closed"] ELSE cs[d]]

\* c.Close()
CloseConn(cs, c) == [cs EXCEPT ![c].c = "closed"]

\* ch.Close()
CloseChannel(cs, c) == [cs EXCEPT ![c].ch = "closed"]

\* handleConnection: conn.OpenChannel(...) is issued on the owner's SSH
\* connection; on an error the accepted connection is closed, otherwise the
\* two copy goroutines are started.  It fails when the owner's connection
\* has ended, and may fail otherwise (the peer rejects the channel).
OpenChannel(c, ok) ==
    /\ conns[c].ch = "none"
    /\ done[listeners[conns[c].ln].owner] => ~ok
    /\ opens' = Append(opens, c)
    /\ conns' = IF ok
                THEN [conns EXCEPT ![c].ch = "open", ![c].up = "running", ![c].down = "running"]
                ELSE [CloseConn(conns, c) EXCEPT ![c].ch = "failed"]
    /\ returned' = NoReturn
    /\ UNCHANGED <<authed, done, forwards, listeners, fs, pc, ln, nreq, lateReg, cancelled>>
    /\ UNCHANGED <<mu, observed, clientVars>>

\* A copy goroutine returns from io.Copy and runs its deferred c.Close() and
\* ch.Close().
FinishCopy(cs, c, dir) == [CloseChannel(CloseConn(cs, c), c) EXCEPT ![c][dir] = "done"]

CopyDirs == {"up", "down"}

\* io.Copy ends while both ends are open: end of file or an error on the
\* accepted connection or on the channel.
CopyEnds(c, dir) ==
    /\ conns[c][dir] = "running"
    /\ conns[c].c = "open" /\ conns[c].ch = "open"
    /\ conns' = FinishCopy(conns, c, dir)
    /\ returned' = NoReturn
    /\ UNCHANGED <<authed, done, forwards, listeners, fs, pc, ln, nreq, lateReg, cancelled>>
    /\ UNCHANGED <<mu, observed, opens, clientVars>>

\* io.Copy ends because the other goroutine closed both ends: the read of
\* the closed connection fails, and the read of the channel ends when the
\* peer answers the close of the channel or the SSH connection ends.
CopyUnblocked(c, dir) ==
    /\ conns[c][dir] = "running"
    /\ conns[c].c = "closed" \/ conns[c].ch = "closed"
    /\ conns' = FinishCopy(conns, c, dir)
    /\ returned' = NoReturn
    /\ UNCHANGED <<authed, done, forwards, listeners, fs, pc, ln, nreq, lateReg, cancelled>>
    /\ UNCHANGED <<mu, observed, opens, clientVars>>

\* A step of the registry: no connection moves.  In ConnSpec the sessions
\* send tcpip-forward requests with a valid bind address only, which the
\* authorizer allows; a listener is closed by the end of its owner.
ConnQuiet == UNCHANGED <<mu, observed, conns, opens, clientVars>>

ConnNext ==
    \/ \E s \in Sessions, answer \in BOOLEAN : Authenticate(s, answer) /\ ConnQuiet
    \/ \E s \in Sessions : Terminate(s) /\ ConnQuiet
    \/ \E s \in Sessions, payload \in ValidPayloads :
            HandleSSHRequest(s, ForwardRequestType, payload, TRUE, FALSE)
              /\ nreq' <= ConnReqs /\ ConnQuiet
    \/ \E s \in Sessions : ForwardInsert(s) /\ ConnQuiet
    \/ \E s \in Sessions : ForwardSpawn(s) /\ ConnQuiet
    \/ \E l \in Lids : SupervisorRead(l) /\ ConnQuiet
    \/ \E l \in Lids : SupervisorClose(l) /\ ConnQuiet
    \/ \E l \in Lids : AcceptClosed(l) /\ ConnQuiet
    \/ \E l \in Lids : AcceptError(l) /\ ConnQuiet
    \/ \E l \in Lids : LoopExit(l) /\ ConnQuiet
    \/ \E l \in Lids : Accept(l) /\ Len(conns') <= MaxConns
    \/ \E c \in Cids, ok \in BOOLEAN : OpenChannel(c, ok)
    \/ \E c \in Cids, dir \in CopyDirs : CopyEnds(c, dir)
    \/ \E c \in Cids, dir \in CopyDirs : CopyUnblocked(c, dir)

ConnSpec == Init /\ [][ConnNext]_vars

\* A goroutine of a connection that can only fail its read fails it: the
\* accepted connection is closed under it, or the channel is closed and the
\* peer answers the close (or the SSH connection ends).
ConnFairness ==
    \A c \in 1..MaxConns, dir \in CopyDirs : WF_vars(c \in Cids /\ CopyUnblocked(c, dir))

ConnFairSpec == Init /\ [][ConnNext]_vars /\ ConnFairness

\* C13 (channel-open ordering), the claim as stated: the connections of one
\* listener issue their channel-opens in the order in which Accept returned
\* them.
C13_ChannelOpenOrder ==
    \A i \in 1..Len(opens), j \in 1..Len(opens) :
        (i < j /\ conns[opens[i]].ln = conns[opens[j]].ln) => opens[i] < opens[j]

\* The handling of connection c has failed: its channel-open failed, or one
\* of its copy directions has ended.
ConnFailed(c) ==
    IF c \in Cids
    THEN conns[c].ch = "failed" \/ conns[c].up = "done" \/ conns[c].down = "done"
    ELSE FALSE

\* Connection c is torn down: the accepted connection is closed, the channel
\* is closed if it was opened, and no copy goroutine is left.
ConnTornDown(c) ==
    IF c \in Cids
    THEN /\ conns[c].c = "closed"
         /\ conns[c].ch \in {"failed", "closed"}
         /\ conns[c].up # "running" /\ conns[c].down # "running"
    ELSE FALSE

\* C15 (per-connection isolation): once the handling of an accepted
\* connection fails (channel-open error, or a copy direction ends) its
\* accepted connection and its channel, if opened, are eventually closed and
\* both copy goroutines have ended; and no step of a connection's handling
\* changes a listener (descriptor, accept loop, supervisor), the map, a
\* socket file or any other connection.
C15_ConnectionIsolation ==
    /\ \A c \in 1..MaxConns : [](ConnFailed(c) => <>ConnTornDown(c))
    /\ [][\A c \in Cids :
            ( \/ \E ok \in BOOLEAN : OpenChannel(c, ok)
              \/ \E dir \in CopyDirs : CopyEnds(c, dir) \/ CopyUnblocked(c, dir) )
            => /\ UNCHANGED <<forwards, listeners, fs>>
               /\ Len(conns') = Len(conns)
               /\ \A d \in Cids \ {c} : conns'[d] = conns[d]]_vars

\* C15 witness: the channel-open of one connection failed and one copy
\* direction of another connection of the same listener ended; both are
\* torn down, and the listener is still open, accepting and in the map.
C15_Witness ==
    \E c \in Cids, d \in Cids :
        /\ conns[c].ln = conns[d].ln
        /\ conns[c].ch = "failed" /\ ConnTornDown(c)
        /\ conns[d].up = "done" /\ conns[d].down = "done" /\ ConnTornDown(d)
        /\ listeners[conns[c].ln].open
        /\ listeners[conns[c].ln].loop = "accepting"
        /\ Held(conns[c].ln)

\* C14 (removal after own loop exit), the claim as stated: an entry is
\* deleted from the map only by the exit of the accept loop of the listener
\* it holds, after that loop's accept failed; no step of a cancel or of a
\* supervisor deletes an entry.
C14_RemovalAfterOwnLoopExit ==
    [][/\ \A k \in DOMAIN forwards :
            k \notin DOMAIN forwards'
            => /\ listeners[forwards[k]].loop = "failed"
               /\ listeners'[forwards[k]].loop = "done"
       /\ \A s \in Sessions : CancelClose(s) => forwards' = forwards
       /\ \A l \in Lids :
            (SupervisorRead(l) \/ SupervisorClose(l)) => forwards' = forwards]_vars

\* ------------------------------------------------- a socket used again

\* Requests that reach the shared state in ReuseSpec: enough for a
\* registration, its cancel and a second registration.
ReuseReqs == 3

\* The registry as in Spec, with sessions that send forward and cancel
\* requests with a valid bind address, which the authorizer allows.
ReuseNext ==
    \/ \E s \in Sessions, answer \in BOOLEAN : Authenticate(s, answer) /\ UNCHANGED extVars
    \/ \E s \in Sessions : Terminate(s) /\ UNCHANGED extVars
    \/ \E s \in Sessions, type \in FacadeRequestTypes, payload \in ValidPayloads :
            HandleSSHRequest(s, type, payload, TRUE, FALSE)
              /\ nreq' <= ReuseReqs /\ UNCHANGED extVars
    \/ \E s \in Sessions : ForwardInsert(s) /\ UNCHANGED extVars
    \/ \E s \in Sessions : ForwardSpawn(s) /\ UNCHANGED extVars
    \/ \E s \in Sessions : CancelClose(s) /\ UNCHANGED extVars
    \/ \E l \in Lids : SupervisorRead(l) /\ UNCHANGED extVars
    \/ \E l \in Lids : SupervisorClose(l) /\ UNCHANGED extVars
    \/ \E l \in Lids : AcceptClosed(l) /\ UNCHANGED extVars
    \/ \E l \in Lids : AcceptError(l) /\ UNCHANGED extVars
    \/ \E l \in Lids : LoopExit(l) /\ UNCHANGED extVars

ReuseSpec == Init /\ [][ReuseNext]_vars

\* C17 (owner isolation on termination), the claim as stated: a supervisor
\* closes only a listener that was opened by a tcpip-forward of the session
\* whose context it waited for.
C17_OwnerIsolation ==
    [][\A l \in Lids :
          SupervisorClose(l)
          => listeners[listeners[l].supLn].owner = listeners[l].owner]_vars

\* A tcpip-forward for the socket is between its net.Listen and its insert.
RegistrationInProgress(socket) ==
    \E s \in Sessions : pc[s] = "listened" /\ listeners[ln[s]].socket = socket

\* C18 (no orphan listener), the claim as stated: every listener that is
\* open with its accept loop running is the one the map holds under its
\* socket; and for a socket that is not in the map and has no registration
\* in progress, no listener is open on it (a dial fails) and net.Listen on
\* it would succeed.
C18_NoOrphanListener ==
    /\ \A l \in Lids :
          (listeners[l].open /\ listeners[l].loop = "accepting") => Held(l)
    /\ \A k \in Sockets :
          (~SocketAlive(k) /\ ~RegistrationInProgress(k))
          => (~DialSucceeds(k) /\ ~ListenFails(k))

\* ------------------------------------------------------ the handler mutex

\* The goroutines that call h.Lock(): the request handler of a session, the
\* supervisor and the accept loop of a listener, and a caller of
\* SocketAlive.
Task(kind, id) == <<kind, id>>

\* Listeners opened, and connections accepted, in LockSpec.
LockListeners == 1
LockConns == 1

Tasks ==
    {Task("req", s) : s \in Sessions}
      \cup {Task("sup", l) : l \in 1..LockListeners}
      \cup {Task("loop", l) : l \in 1..LockListeners}
      \cup {Task("alive", "r")}

\* The task stands at an h.Lock() of the code: the handler after net.Listen,
\* the supervisor after <-ctx.Done(), the accept loop after its break.
Blocked(t) ==
    CASE t[1] = "req"  -> pc[t[2]] = "listened"
      [] t[1] = "sup"  -> t[2] \in Lids /\ listeners[t[2]].sup = "waiting"
                            /\ done[listeners[t[2]].owner]
      [] t[1] = "loop" -> t[2] \in Lids /\ listeners[t[2]].loop = "failed"
      [] OTHER -> FALSE

\* The task comes to an h.Lock(): it stands at one, or a cancel request
\* with a valid bind address has arrived on an authenticated session, or
\* SocketAlive is called.
WantsLock(t) ==
    \/ Blocked(t)
    \/ t[1] = "req" /\ pc[t[2]] = "idle" /\ ~done[t[2]] /\ Authed(t[2]) /\ nreq < MaxReqs
    \/ t[1] = "alive"

\* h.Lock()
Lock(t) ==
    /\ mu = NoTask
    /\ WantsLock(t)
    /\ mu' = t
    /\ returned' = NoReturn
    /\ UNCHANGED <<authed, done, forwards, listeners, fs, pc, ln, nreq, lateReg, cancelled>>
    /\ UNCHANGED <<observed, conns, opens, clientVars>>

\* Mutant of Unlock: the mutex is not released.
UnlockForgotten(t) == t

\* h.Unlock(): the holder after it.
Unlock(t) == NoTask

\* The map access of task t and the h.Unlock() that follows it.
Critical(t) == mu = t /\ mu' = Unlock(t) /\ UNCHANGED <<observed, conns, opens, clientVars>>

\* A step of task t outside a critical section.
Outside == UNCHANGED <<mu, observed, conns, opens, clientVars>>


\* The bind address the sessions of LockSpec send.
LockPayloads == {p \in ValidPayloads : p.BindUnixSocket = <<"/", "a", "/", "1">>}

\* The locked read of a cancel and its h.Unlock().
CancelRead(s) ==
    /\ \E payload \in LockPayloads :
          HandleSSHRequest(s, CancelRequestType, payload, TRUE, FALSE)
    /\ nreq' <= MaxReqs
    /\ Critical(Task("req", s))

\* SocketAlive: the locked membership test and its h.Unlock(); the answer
\* is not kept.
SocketAliveRead ==
    /\ mu = Task("alive", "r")
    /\ mu' = Unlock(mu)
    /\ returned' = NoReturn
    /\ UNCHANGED <<authed, done, forwards, listeners, fs, pc, ln, nreq, lateReg, cancelled>>
    /\ UNCHANGED <<observed, conns, opens, clientVars>>

\* The registry with h.Lock() as a step of its own.  The sessions send
\* forward and cancel requests with a valid bind address, which the
\* authorizer allows.  A cancel takes the mutex when it arrives and reads
\* the map in its next step; the connection of a session does not end
\* between the two.
LockNext ==
    \/ \E t \in Tasks : Lock(t)
    \/ \E s \in Sessions : Authenticate(s, TRUE) /\ Outside
    \/ \E s \in Sessions : Terminate(s) /\ mu # Task("req", s) /\ Outside
    \/ \E s \in Sessions, payload \in LockPayloads :
            HandleSSHRequest(s, ForwardRequestType, payload, TRUE, FALSE)
              /\ mu # Task("req", s) /\ nreq' <= MaxReqs
              /\ Len(listeners') <= LockListeners /\ Outside
    \/ \E s \in Sessions : CancelRead(s)
    \/ \E s \in Sessions : ForwardInsert(s) /\ Critical(Task("req", s))
    \/ \E s \in Sessions : ForwardSpawn(s) /\ Outside
    \/ \E s \in Sessions : CancelClose(s) /\ Outside
    \/ \E l \in Lids : SupervisorRead(l) /\ Critical(Task("sup", l))
    \/ \E l \in Lids : SupervisorClose(l) /\ Outside
    \/ \E l \in Lids : AcceptClosed(l) /\ Outside
    \/ \E l \in Lids : AcceptError(l) /\ Outside
    \/ \E l \in Lids : LoopExit(l) /\ Critical(Task("loop", l))
    \/ SocketAliveRead
    \/ \E l \in Lids : Accept(l) /\ Len(conns') <= LockConns
    \/ \E c \in Cids, ok \in BOOLEAN : OpenChannel(c, ok)
    \/ \E c \in Cids, dir \in CopyDirs : CopyEnds(c, dir)
    \/ \E c \in Cids, dir \in CopyDirs : CopyUnblocked(c, dir)

LockSpec == Init /\ [][LockNext]_vars

\* sync.Mutex hands the mutex to a goroutine that keeps waiting for it
\* (starvation mode), and a goroutine inside a critical section runs on.
LockFairness ==
    /\ \A t \in Tasks : SF_vars(Blocked(t) /\ Lock(t))
    /\ \A s \in Sessions :
          /\ WF_vars(ForwardInsert(s) /\ Critical(Task("req", s)))
          /\ WF_vars(CancelRead(s))
    /\ \A l \in 1..LockListeners :
          /\ WF_vars(l \in Lids /\ SupervisorRead(l) /\ Critical(Task("sup", l)))
          /\ WF_vars(l \in Lids /\ LoopExit(l) /\ Critical(Task("loop", l)))
    /\ WF_vars(SocketAliveRead)

LockFairSpec == Init /\ [][LockNext]_vars /\ LockFairness

\* The holder of the mutex is between h.Lock() and the map access that
\* follows it.
HolderInCriticalSection ==
    /\ mu \in {NoTask} \cup Tasks
    /\ \A s \in Sessions :
          mu = Task("req", s) => pc[s] \in {"idle", "listened"}
    /\ \A l \in 1..LockListeners :
          /\ mu = Task("sup", l) => Blocked(Task("sup", l))
          /\ mu = Task("loop", l) => Blocked(Task("loop", l))

\* C16 (lock discipline): the task that holds the mutex is a request
\* handler about to insert or to read for a cancel, a supervisor past
\* <-ctx.Done() about to read, an accept loop past its break about to
\* delete, or a caller of SocketAlive; the step of the holder is that map
\* access, which releases the mutex and changes no listener and no socket
\* file; no step that listens, closes or accepts is taken by the holder; a
\* step that accepts a connection, opens its channel or ends a copy neither
\* takes nor releases the mutex; and a task that stands at h.Lock() eventually holds the mutex, and the
\* holder eventually releases it, under fair scheduling.
C16_LockDiscipline ==
    /\ []HolderInCriticalSection
    /\ [][\A t \in Tasks :
            mu = t => \/ (mu' = NoTask /\ fs' = fs
                           /\ \A l \in Lids : listeners'[l].open = listeners[l].open
                           /\ Len(listeners') = Len(listeners))
                      \/ (mu' = t /\ \A s \in Sessions :
                                        t = Task("req", s) => pc'[s] = pc[s])]_vars
    /\ [][(conns' # conns \/ opens' # opens) => mu' = mu]_vars
    /\ \A t \in Tasks : []((Blocked(t) /\ mu # t) => <>(mu = t))
    /\ [](mu # NoTask => <>(mu = NoTask))

\* C16 witness: the accept loop of a listener holds the mutex for its
\* delete while the supervisor of the listener stands at h.Lock() for its
\* read, an authenticated session can send a cancel, and a connection is
\* being copied.
C16_Witness ==
    \E l \in Lids, s \in Sessions :
        /\ mu = Task("loop", l)
        /\ Blocked(Task("sup", l))
        /\ pc[s] = "idle" /\ Authed(s) /\ ~done[s]
        /\ \E c \in Cids : conns[c].up = "running" /\ conns[c].down = "running"

\* ------------------------------------------------ the client: Run

\* Proxies in the client's configuration.
MaxProxies == 2

\* ProxyConfig.Type: DynamicForward, LocalForward, RemoteForward.
ProxyTypes == {"dynamic", "local", "remote"}

\* c.config.Proxies: one to MaxProxies proxies.
Configs == UNION {[1..n -> ProxyTypes] : n \in 1..MaxProxies}

Pids == 1..Len(proxies)

\* The server side does not move in ClientSpec.
ClientOnly == UNCHANGED <<serverVars, mu, observed, conns, opens>>

\* NewSSHConnection(config, dialer) and the start of Run: the dial
\* succeeds, errCh is made, the three deferred calls are registered.
RunStart(config) ==
    /\ run = "none"
    /\ proxies' = config
    /\ proxy' = [i \in 1..Len(config) |-> "none"]
    /\ run' = "loop"
    /\ UNCHANGED <<result, spawned, ctxDone, errChClosed, clientClosed, sentOnClosed>>
    /\ ClientOnly

\* for _, proxy := range c.config.Proxies { wg.Add(1); go func(...) }
Spawn ==
    /\ run = "loop"
    /\ spawned < Len(proxies)
    /\ spawned' = spawned + 1
    /\ proxy' = [proxy EXCEPT ![spawned + 1] = "running"]
    /\ UNCHANGED <<proxies, run, result, ctxDone, errChClosed, clientClosed, sentOnClosed>>
    /\ ClientOnly

\* Run reaches its select and blocks in it.
ReachSelect ==
    /\ run = "loop"
    /\ spawned = Len(proxies)
    /\ run' = "select"
    /\ UNCHANGED <<proxies, result, spawned, proxy, ctxDone, errChClosed, clientClosed,
                   sentOnClosed>>
    /\ ClientOnly

\* The context passed to Run is cancelled.
CancelContext ==
    /\ run # "none"
    /\ ~ctxDone
    /\ ctxDone' = TRUE
    /\ UNCHANGED <<proxies, run, result, spawned, proxy, errChClosed, clientClosed,
                   sentOnClosed>>
    /\ ClientOnly

\* handleSSHProxy returns at once with an error: a dynamic forward
\* ("TODO"), or a forward whose listen() fails.
ReturnsAtOnce(type, listenFails) == type = "dynamic" \/ listenFails

\* handleSSHProxy of goroutine i returns an error.  A forward whose listener
\* is up returns only when its blocking call does: client.Wait for a local
\* forward, the listener of a remote forward; that is when the SSH
\* connection ends, by client.Close() or on its own.
ProxyReturns(i, listenFails, connectionEnds) ==
    /\ proxy[i] = "running"
    /\ ReturnsAtOnce(proxies[i], listenFails) \/ clientClosed \/ connectionEnds
    /\ proxy' = [proxy EXCEPT ![i] = "failed"]
    /\ UNCHANGED <<proxies, run, result, spawned, ctxDone, errChClosed, clientClosed,
                   sentOnClosed>>
    /\ ClientOnly

\* select { case errCh <- err: default: } of goroutine i, and wg.Done().
\* The send goes through only if Run is blocked in its select; Run then
\* returns the error.
SendOrDrop(i) ==
    /\ proxy[i] = "failed"
    /\ proxy' = [proxy EXCEPT ![i] = "done"]
    /\ IF run = "select"
       THEN run' = "wait" /\ result' = "err"
       ELSE UNCHANGED <<run, result>>
    /\ sentOnClosed' = (sentOnClosed \/ (errChClosed /\ run = "select"))
    /\ UNCHANGED <<proxies, spawned, ctxDone, errChClosed, clientClosed>>
    /\ ClientOnly

\* case <-ctx.Done(): return nil
SelectDone ==
    /\ run = "select"
    /\ ctxDone
    /\ run' = "wait"
    /\ result' = "nil"
    /\ UNCHANGED <<proxies, spawned, proxy, ctxDone, errChClosed, clientClosed, sentOnClosed>>
    /\ ClientOnly

\* defer wg.Wait(): every goroutine started has called wg.Done().
DeferredWait ==
    /\ run = "wait"
    /\ \A i \in Pids : proxy[i] = "done"
    /\ run' = "close"
    /\ UNCHANGED <<proxies, result, spawned, proxy, ctxDone, errChClosed, clientClosed,
                   sentOnClosed>>
    /\ ClientOnly

\* defer close(errCh)
DeferredCloseErrCh ==
    /\ run = "close"
    /\ errChClosed' = TRUE
    /\ run' = "clientClose"
    /\ UNCHANGED <<proxies, result, spawned, proxy, ctxDone, clientClosed, sentOnClosed>>
    /\ ClientOnly

\* defer client.Close(), after which Run has returned.
DeferredClientClose ==
    /\ run = "clientClose"
    /\ clientClosed' = TRUE
    /\ run' = "returned"
    /\ UNCHANGED <<proxies, result, spawned, proxy, ctxDone, errChClosed, sentOnClosed>>
    /\ ClientOnly

ClientNext ==
    \/ \E config \in Configs : RunStart(config)
    \/ Spawn
    \/ ReachSelect
    \/ CancelContext
    \/ \E i \in Pids, listenFails \in BOOLEAN, connectionEnds \in BOOLEAN :
          ProxyReturns(i, listenFails, connectionEnds)
    \/ \E i \in Pids : SendOrDrop(i)
    \/ SelectDone
    \/ DeferredWait
    \/ DeferredCloseErrCh
    \/ DeferredClientClose

ClientSpec == Init /\ [][ClientNext]_vars

\* Every goroutine of the client that can take a step takes it; a dynamic
\* forward returns, and a forward returns once client.Close() has run.  The
\* cancellation, a listen failure and the end of the SSH connection on its
\* own are not forced.
ClientFairness ==
    /\ WF_vars(Spawn)
    /\ WF_vars(ReachSelect)
    /\ WF_vars(SelectDone)
    /\ WF_vars(DeferredWait)
    /\ WF_vars(DeferredCloseErrCh)
    /\ WF_vars(DeferredClientClose)
    /\ \A i \in 1..MaxProxies :
          /\ WF_vars(i \in Pids /\ SendOrDrop(i))
          /\ WF_vars(i \in Pids /\ ProxyReturns(i, FALSE, FALSE))

ClientFairSpec == Init /\ [][ClientNext]_vars /\ ClientFairness

\* The configuration holds forwards only, and the listener of each one that
\* was started is up.
ForwardsUp ==
    /\ run # "none"
    /\ \A i \in Pids : proxies[i] \in {"local", "remote"} /\ proxy[i] \in {"none", "running"}

\* C19 (Run terminates on cancellation), the claim as stated: with forwards
\* only, all with their listeners up, once the context is cancelled Run
\* eventually has run its deferred calls and returned nil (unless a forward
\* fails meanwhile).
C19_RunTerminatesOnCancel ==
    []((ForwardsUp /\ ctxDone) => <>((run = "returned" /\ result = "nil") \/ ~ForwardsUp))

\* Goroutine i has got an error from handleSSHProxy.
ProxyFailed(i) == IF i \in Pids THEN proxy[i] = "failed" ELSE FALSE

\* C20 (Run reports proxy failure), the claim as stated: once a proxy
\* goroutine has got an error while the context is not cancelled, Run
\* eventually returns that error (unless the context is cancelled
\* meanwhile); and errCh is never sent on after its close.
C20_RunReportsFailure ==
    /\ \A i \in 1..MaxProxies :
          []((ProxyFailed(i) /\ ~ctxDone) => <>(ctxDone \/ (run = "returned" /\ result = "err")))
    /\ [](~sentOnClosed)

====
